---------------------------- MODULE Spec2Model ----------------------------
(***************************************************************************)
(* A model of concore2full's work-stealing thread pool (thread_pool.cpp)   *)
(* and of the spawn/await rendezvous that runs on top of it.               *)
(*                                                                         *)
(* Every atomic operation and every lock acquisition of the pool is one    *)
(* step of the thread that performs it.  The intrusive task list is kept   *)
(* field by field (next_, prev_link_, worker_data_), as the code keeps it. *)
(***************************************************************************)
EXTENDS Integers, Naturals, Sequences, FiniteSets, TLC

\* ------------------------------------------------------------------ bounds
MaxWorkers == 2          \* largest thread_count a behaviour is built with
MaxTasks == 3            \* number of distinct task objects
MaxExtracts == 1         \* calls of extract_task made for one task
MaxEnqueues == 2    \* enqueue calls made with one task object, one after the other
MaxStacks == 3      \* stacks one behaviour creates with callcc

\* ------------------------------------------------------------- value space
Workers == 0 .. (MaxWorkers - 1)     \* thread indices; line i belongs to worker i
Tasks == 1 .. MaxTasks
SomeTasks == 1 .. (MaxTasks - 1)     \* the tasks used where workers are many
MaxSpawns == MaxTasks - 1            \* the most spawns one flow makes
NoTask == 0                          \* nullptr as a concore2full_task*
NoLine == -1                         \* nullptr as a work_line* (worker_data_)
NoLink == <<"null", 0>>              \* nullptr as a concore2full_task** (prev_link_)
NoCont == <<"null", 0>>              \* nullptr as a continuation_t
NoThread == -1                       \* the flow is suspended: no OS thread runs it
MainThread == MaxWorkers             \* the OS thread that is not a worker of the pool
HeadSlot(l) == <<"head", l>>         \* &work_lines_[l].tasks_stack_
NextSlot(t) == <<"next", t>>         \* &t->next_
Half == 65536                        \* a uint32_t is kept as two 16-bit halves, hi * Half + lo
Stacks == 1 .. MaxStacks              \* the stacks callcc allocates
RootStack == 0                        \* the stack the OS gave the thread
AllStacks == 0 .. MaxStacks
NoStack == -1                         \* nullptr as a continuation_t or a control structure

VARIABLES
  nw,                     \* thread_count: work_lines_.size()
  threads_size,           \* threads_.size(): nw until join() clears the vector
  tasks_stack_,           \* [line -> head task]
  next_, prev_link_, worker_data_,   \* the fields of each concore2full_task
  bottleneck_,            \* [line -> TRUE when the line's mutex is held]
  num_tasks_,             \* atomic<int>
  line_to_push_to_,       \* atomic<uint32_t>
  stop_requested_,        \* atomic<bool>
  wake_requests_,         \* [worker -> atomic<int>]
  wakeup_token_,          \* [worker -> state of the token of the current sleep_helper]
  work_line_start_index_, \* [worker -> atomic<int>]
  wk,                     \* [worker -> the locals and position of thread_main]
  enq,                    \* [task -> the locals and position of enqueue(task)]
  ext,                    \* [task -> the locals and position of extract_task(task)]
  ctl,                    \* the owner of the pool: join() and ~thread_pool()
  task_function_,         \* [task -> what task_function_ points at]
  sync_state_,            \* [frame -> initial, main_finished or async_finished]
  originator_,            \* [frame -> the continuation slot written by await]
  secondary_thread_,      \* [frame -> the continuation slot written by on_async_complete]
  result_,                \* [frame -> the value held by the frame's value_holder]
  caller_k,               \* [frame -> the worker loop suspended in execute_spawn_task]
  co,                     \* [frame -> the position of the coroutine that runs the function]
  sp,                     \* the locals and position of the flow that spawns and awaits
  inv,                    \* [frame -> the OS thread still inside await's callcc, if any]
  thr,                    \* the OS thread each logical flow is running on
  obs,                    \* what has been observed so far (never read by the program)
  contexts                \* the stacks made by callcc and the code running on them

listVars == <<tasks_stack_, next_, prev_link_, worker_data_>>
wakeVars == <<wake_requests_, wakeup_token_, work_line_start_index_>>
frameVars == <<task_function_, sync_state_, originator_, secondary_thread_, result_,
               caller_k>>
flowVars == <<thr, inv>>
spawnVars == <<frameVars, co, sp, flowVars>>
poolVars == <<nw, threads_size, listVars, bottleneck_, num_tasks_, line_to_push_to_,
              stop_requested_, wakeVars, wk, enq, ext, ctl, obs>>

Lines == 0 .. (nw - 1)
Threads == 0 .. (nw - 1)


\* ------------------------------------------------------ uint32_t arithmetic
\* c + 1 for a uint32_t c: wraps from 2^32 - 1 to 0.
UIntInc(c) ==
  IF c.lo + 1 < Half THEN [hi |-> c.hi, lo |-> c.lo + 1]
  ELSE [hi |-> (c.hi + 1) % Half, lo |-> 0]

\* c % n for a uint32_t c and 0 < n < Half.
UIntMod(c, n) == (((c.hi % n) * (Half % n)) + (c.lo % n)) % n

\* ------------------------------------------------- the intrusive task list
\* What *slot reads, for a concore2full_task** slot.
Deref(slot) ==
  IF slot[1] = "head" THEN tasks_stack_[slot[2]]
  ELSE IF slot[1] = "next" THEN next_[slot[2]]
  ELSE NoTask

\* check_list(head, data): every node reachable from the head of line l has a
\* prev_link_ that points back at it and worker_data_ = l.
RECURSIVE WalkOk(_, _, _)
WalkOk(cur, l, fuel) ==
  IF cur = NoTask THEN TRUE
  ELSE IF fuel = 0 THEN FALSE
  ELSE /\ prev_link_[cur] # NoLink
       /\ Deref(prev_link_[cur]) = cur
       /\ worker_data_[cur] = l
       /\ WalkOk(next_[cur], l, fuel - 1)

check_list(l) == WalkOk(tasks_stack_[l], l, MaxTasks)

\* The tasks reachable from the head of line l, head first.
RECURSIVE Chain(_, _)
Chain(cur, fuel) ==
  IF cur = NoTask \/ fuel = 0 THEN <<>>
  ELSE <<cur>> \o Chain(next_[cur], fuel - 1)

LineSeq(l) == Chain(tasks_stack_[l], MaxTasks)
InLine(t, l) == \E i \in 1 .. Len(LineSeq(l)) : LineSeq(l)[i] = t
Linked(t) == \E l \in Lines : InLine(t, l)

\* A push that leaves the prev_link_ of the old front task pointing at the head slot.
PushLeavesHeadLink(task, l) ==
  [ts |-> [tasks_stack_ EXCEPT ![l] = task],
   nx |-> [next_ EXCEPT ![task] = tasks_stack_[l]],
   pl |-> [prev_link_ EXCEPT ![task] = HeadSlot(l)],
   wd |-> [worker_data_ EXCEPT ![task] = l]]

\* work_line::push_unprotected: the list fields after task is put in front of line l.
PushUnprotected(task, l) ==
  LET head == tasks_stack_[l] IN
  [ts |-> [tasks_stack_ EXCEPT ![l] = task],
   nx |-> [next_ EXCEPT ![task] = head],
   pl |-> [t \in Tasks |-> IF t = task THEN HeadSlot(l)
                           ELSE IF t = head THEN NextSlot(task)
                           ELSE prev_link_[t]],
   wd |-> [worker_data_ EXCEPT ![task] = l]]

\* A pop that returns the front task and leaves it at the front of the line.
PopKeepsHead(l) ==
  LET res == tasks_stack_[l] IN
  [res |-> res, ts |-> tasks_stack_, nx |-> next_, pl |-> prev_link_, wd |-> worker_data_]

\* A pop that unlinks the front task and leaves its worker_data_ as it was.
PopKeepsWorkerData(l) ==
  LET res == tasks_stack_[l]
      rest == IF res = NoTask THEN NoTask ELSE next_[res] IN
  [res |-> res,
   ts |-> [tasks_stack_ EXCEPT ![l] = rest],
   nx |-> next_,
   pl |-> [t \in Tasks |-> IF t = res THEN NoLink
                           ELSE IF t = rest THEN HeadSlot(l)
                           ELSE prev_link_[t]],
   wd |-> worker_data_]

\* work_line::pop_unprotected: the task taken from the front of line l (NoTask
\* when the line is empty) and the list fields afterwards.
PopUnprotected(l) ==
  LET res == tasks_stack_[l]
      rest == IF res = NoTask THEN NoTask ELSE next_[res] IN
  IF res = NoTask
  THEN [res |-> NoTask, ts |-> tasks_stack_, nx |-> next_, pl |-> prev_link_,
        wd |-> worker_data_]
  ELSE [res |-> res,
        ts |-> [tasks_stack_ EXCEPT ![l] = rest],
        nx |-> next_,
        pl |-> [t \in Tasks |-> IF t = res THEN NoLink
                                ELSE IF t = rest THEN HeadSlot(l)
                                ELSE prev_link_[t]],
        wd |-> [worker_data_ EXCEPT ![res] = NoLine]]

\* An extract that does not look at task->worker_data_.
ExtractIgnoresWorkerData(task) ==
  LET slot == prev_link_[task]
      nxt == next_[task] IN
  [res |-> TRUE,
   ts |-> IF slot[1] = "head" THEN [tasks_stack_ EXCEPT ![slot[2]] = nxt] ELSE tasks_stack_,
   nx |-> IF slot[1] = "next" THEN [next_ EXCEPT ![slot[2]] = nxt] ELSE next_,
   pl |-> [t \in Tasks |-> IF t = task THEN NoLink
                           ELSE IF t = nxt /\ t # NoTask THEN slot
                           ELSE prev_link_[t]],
   wd |-> [worker_data_ EXCEPT ![task] = NoLine]]

\* The body of work_line::extract_task(task), run with the lock of some line held:
\* unlinks task through its prev_link_ when task->worker_data_ is not null.
ExtractUnprotected(task) ==
  LET slot == prev_link_[task]
      nxt == next_[task] IN
  IF worker_data_[task] = NoLine
  THEN [res |-> FALSE, ts |-> tasks_stack_, nx |-> next_, pl |-> prev_link_,
        wd |-> worker_data_]
  ELSE [res |-> TRUE,
        ts |-> IF slot[1] = "head" THEN [tasks_stack_ EXCEPT ![slot[2]] = nxt]
               ELSE tasks_stack_,
        nx |-> IF slot[1] = "next" THEN [next_ EXCEPT ![slot[2]] = nxt] ELSE next_,
        pl |-> [t \in Tasks |-> IF t = task THEN NoLink
                                ELSE IF t = nxt THEN slot
                                ELSE prev_link_[t]],
        wd |-> [worker_data_ EXCEPT ![task] = NoLine]]

SetList(r) ==
  /\ tasks_stack_' = r.ts
  /\ next_' = r.nx
  /\ prev_link_' = r.pl
  /\ worker_data_' = r.wd

\* A try_notify that also wins when the worker is not asleep (fetch_add returned 1).
TryNotifyClaimsAwake(t) == wake_requests_[t] <= 1

\* ----------------------------------------------------- wake-up handshake
\* worker_thread_data::try_notify, first half: wake_requests_.fetch_add(1) == 0.
\* The value is TRUE when the caller has to store the hint and notify the token.
TryNotifyClaims(t) == wake_requests_[t] = 0

\* A notify that gets lost.
NotifyLost(tok) == tok

\* wakeup_token::notify: wakes the sleeper of a live token, a no-op otherwise.
Notified(tok) == IF tok = "armed" THEN "notified" ELSE tok

\* The process is alive: std::terminate has not been called.
Alive == ctl.pc # "terminated"

\* ------------------------------------------------------- thread identity
\* x with the OS threads a and b exchanged.
Ren(x, a, b) == IF x = a THEN b ELSE IF x = b THEN a ELSE x

\* The flow that runs on OS thread t is at a point where it can be moved to another
\* OS thread: the spawning flow between two calls or waiting in join(), a worker loop
\* at the head of its loop or in revert().
OccupantYields(t) ==
  \/ /\ thr.main = t
     /\ \/ sp.pc \in {"spawn", "await"}
        \/ sp.pc = "done" /\ ctl.pc \in {"idle", "j_join", "joined"}
  \/ \E v \in Workers : thr.loop[v] = t /\ wk[v].pc \in {"loop", "revert"}

\* The worker loop w runs on its own OS thread, or can take it back now.
CanRestore(w) == thr.loop[w] = w \/ OccupantYields(w)

\* The flow of thread_main(w) gets its own OS thread back: whatever runs on OS thread
\* w continues on the OS thread the worker loop was running on.
RestoreThread(w) ==
  LET cur == thr.loop[w] IN
  /\ thr' = [main |-> Ren(thr.main, cur, w),
             loop |-> [v \in Workers |-> Ren(thr.loop[v], cur, w)],
             co |-> [f \in Tasks |-> Ren(thr.co[f], cur, w)]]
  /\ inv' = [f \in Tasks |-> Ren(inv[f], cur, w)]

\* ----------------------------------------------------------- thread_main
\* A loop that goes on to num_tasks_ without calling inversion_checkpoint.
LoopSkipsCheckpoint(w) ==
  [wk[w] EXCEPT !.pc = IF stop_requested_ THEN "revert" ELSE "load_tasks",
                !.checked = FALSE]

\* The head of the loop of thread_main: leave when stop is requested, else pass the
\* inversion checkpoint and go on to look at num_tasks_.
LoopEntry(w) ==
  [wk[w] EXCEPT !.pc = IF stop_requested_ THEN "revert" ELSE "load_tasks",
                !.checked = ~stop_requested_]

\* while (!stop_requested_.load(relaxed)) { this_thread::inversion_checkpoint();
\* The checkpoint touches nothing of the pool, so it is taken in the step of the
\* load that lets the worker into the loop body.
WLoop(w) ==
  /\ Alive /\ w \in Threads /\ wk[w].pc = "loop"
  /\ wk' = [wk EXCEPT ![w] = LoopEntry(w)]
  /\ IF wk'[w].checked /\ CanRestore(w) THEN RestoreThread(w) ELSE UNCHANGED flowVars
  /\ UNCHANGED <<contexts, frameVars, co, sp, nw, threads_size, listVars, bottleneck_, num_tasks_,
                 line_to_push_to_, stop_requested_, wakeVars, enq, ext, ctl, obs>>

\* if (num_tasks_.load(acquire) == 0) work_line_hint = threads_[i].sleep(stop_requested_);
WLoadTasks(w) ==
  /\ Alive /\ w \in Threads /\ wk[w].pc = "load_tasks"
  /\ wk' = [wk EXCEPT ![w].pc = IF num_tasks_ = 0 THEN "sleep_dec" ELSE "sweep",
                      ![w].i = 0]
  /\ UNCHANGED <<contexts, spawnVars, nw, threads_size, listVars, bottleneck_, num_tasks_, line_to_push_to_,
                 stop_requested_, wakeVars, enq, ext, ctl, obs>>

\* sleep(): wakeup_token_ = sleep_helper.get_wakeup_token();
\*          if (wake_requests_.fetch_sub(1, acq_rel) == 1)
\* Nobody reads wakeup_token_ before wake_requests_ has been seen at 0, so the
\* token is written in the step of the fetch_sub.
WSleepDec(w) ==
  /\ Alive /\ w \in Threads /\ wk[w].pc = "sleep_dec"
  /\ wakeup_token_' = [wakeup_token_ EXCEPT ![w] = "armed"]
  /\ wake_requests_' = [wake_requests_ EXCEPT ![w] = @ - 1]
  /\ wk' = [wk EXCEPT ![w].pc = IF wake_requests_[w] = 1 THEN "sleep_check"
                                ELSE "sleep_end"]
  /\ UNCHANGED <<contexts, spawnVars, nw, threads_size, listVars, bottleneck_, num_tasks_, line_to_push_to_,
                 stop_requested_, work_line_start_index_, enq, ext, ctl, obs>>

\* sleep(): if (!stop_requested.load(relaxed)) sleep_helper.sleep();
WSleepCheck(w) ==
  /\ Alive /\ w \in Threads /\ wk[w].pc = "sleep_check"
  /\ wk' = [wk EXCEPT ![w].pc = IF stop_requested_ THEN "sleep_end" ELSE "parked"]
  /\ UNCHANGED <<contexts, spawnVars, nw, threads_size, listVars, bottleneck_, num_tasks_, line_to_push_to_,
                 stop_requested_, wakeVars, enq, ext, ctl, obs>>

\* sleep_helper.sleep() returns once the token has been notified.
WWake(w) ==
  /\ Alive /\ w \in Threads /\ wk[w].pc = "parked"
  /\ wakeup_token_[w] = "notified"
  /\ wk' = [wk EXCEPT ![w].pc = "sleep_end"]
  /\ UNCHANGED <<contexts, spawnVars, nw, threads_size, listVars, bottleneck_, num_tasks_, line_to_push_to_,
                 stop_requested_, wakeVars, enq, ext, ctl, obs>>

\* sleep(): wakeup_token_.invalidate(); wake_requests_.store(1, release);
\*          return work_line_start_index_.load(acquire);
WSleepEnd(w) ==
  /\ Alive /\ w \in Threads /\ wk[w].pc = "sleep_end"
  /\ wakeup_token_' = [wakeup_token_ EXCEPT ![w] = "invalid"]
  /\ wake_requests_' = [wake_requests_ EXCEPT ![w] = 1]
  /\ wk' = [wk EXCEPT ![w].pc = "sweep", ![w].hint = work_line_start_index_[w], ![w].i = 0]
  /\ UNCHANGED <<contexts, spawnVars, nw, threads_size, listVars, bottleneck_, num_tasks_, line_to_push_to_,
                 stop_requested_, work_line_start_index_, enq, ext, ctl, obs>>

\* The line the sweep of worker w is looking at: (i + work_line_hint) % work_line_count.
SweepLine(w) == (wk[w].i + wk[w].hint) % nw

\* One iteration of the sweep, for (i = 0; i < 2 * work_line_count; i++): try_pop's
\* try_to_lock on the line.  A held lock makes try_pop return nullptr; after the
\* last iteration without a task the loop of thread_main starts over.
WTryPop(w) ==
  /\ Alive /\ w \in Threads /\ wk[w].pc = "sweep"
  /\ IF wk[w].i >= 2 * nw
     THEN /\ wk' = [wk EXCEPT ![w].pc = "loop", ![w].i = 0, ![w].checked = FALSE]
          /\ UNCHANGED bottleneck_
     ELSE IF bottleneck_[SweepLine(w)]
     THEN /\ wk' = [wk EXCEPT ![w].i = @ + 1]
          /\ UNCHANGED bottleneck_
     ELSE /\ bottleneck_' = [bottleneck_ EXCEPT ![SweepLine(w)] = TRUE]
          /\ wk' = [wk EXCEPT ![w].pc = "pop_body", ![w].line = SweepLine(w)]
  /\ UNCHANGED <<contexts, spawnVars, nw, threads_size, listVars, num_tasks_, line_to_push_to_,
                 stop_requested_, wakeVars, enq, ext, ctl, obs>>

\* try_pop with the lock held: if (!tasks_stack_) return nullptr; return pop_unprotected();
WPopBody(w) ==
  /\ Alive /\ w \in Threads /\ wk[w].pc = "pop_body"
  /\ LET r == PopUnprotected(wk[w].line) IN
       /\ SetList(r)
       /\ bottleneck_' = [bottleneck_ EXCEPT ![wk[w].line] = FALSE]
       /\ IF r.res = NoTask
          THEN /\ wk' = [wk EXCEPT ![w].pc = "sweep", ![w].i = @ + 1, ![w].line = 0]
               /\ UNCHANGED obs
          ELSE /\ wk' = [wk EXCEPT ![w].pc = "dec", ![w].task = r.res, ![w].i = 0]
               /\ obs' = [obs EXCEPT !.popped[r.res] = @ + 1]
  /\ UNCHANGED <<contexts, spawnVars, nw, threads_size, num_tasks_, line_to_push_to_,
                 stop_requested_, wakeVars, enq, ext, ctl>>

\* num_tasks_.fetch_sub(1, relaxed);
WDec(w) ==
  /\ Alive /\ w \in Threads /\ wk[w].pc = "dec"
  /\ num_tasks_' = num_tasks_ - 1
  /\ wk' = [wk EXCEPT ![w].pc = "exec"]
  /\ UNCHANGED <<contexts, spawnVars, nw, threads_size, listVars, bottleneck_, line_to_push_to_,
                 stop_requested_, wakeVars, enq, ext, ctl, obs>>

\* to_execute->task_function_(to_execute, line_index); continue;
\* A plain task function runs to its end.  execute_spawn_task suspends the worker
\* loop in callcc and starts the function of the frame on a stack of its own, on
\* the OS thread the loop was running on.
WExec(w) ==
  /\ Alive /\ w \in Threads /\ wk[w].pc = "exec"
  /\ obs' = [obs EXCEPT !.invoked[wk[w].task] = @ + 1,
                        !.lateInvoke = @ \/ ctl.pc \in {"joined", "destroyed"},
                        !.startOn[wk[w].task] =
                           IF task_function_[wk[w].task] = "execute_spawn_task"
                           THEN thr.loop[w] ELSE @]
  /\ IF task_function_[wk[w].task] = "execute_spawn_task"
     THEN /\ wk' = [wk EXCEPT ![w].pc = "in_task", ![w].line = 0, ![w].checked = FALSE]
          /\ caller_k' = [caller_k EXCEPT ![wk[w].task] = w]
          /\ co' = [co EXCEPT ![wk[w].task].pc = "user"]
          /\ thr' = [thr EXCEPT !.co[wk[w].task] = thr.loop[w], !.loop[w] = NoThread]
     ELSE /\ wk' = [wk EXCEPT ![w].pc = "loop", ![w].task = NoTask, ![w].line = 0,
                              ![w].checked = FALSE]
          /\ UNCHANGED <<caller_k, co, thr>>
  /\ UNCHANGED <<contexts, task_function_, sync_state_, originator_, secondary_thread_, result_, sp,
                 inv, nw, threads_size, listVars, bottleneck_, num_tasks_, line_to_push_to_,
                 stop_requested_, wakeVars, enq, ext, ctl>>

\* t.revert(); and the return from thread_main
WRevert(w) ==
  /\ Alive /\ w \in Threads /\ wk[w].pc = "revert"
  /\ CanRestore(w)
  /\ wk' = [wk EXCEPT ![w].pc = "exited"]
  /\ RestoreThread(w)
  /\ UNCHANGED <<contexts, frameVars, co, sp, nw, threads_size, listVars, bottleneck_, num_tasks_,
                 line_to_push_to_, stop_requested_, wakeVars, enq, ext, ctl, obs>>

\* ------------------------------------------------------ thread_pool::enqueue
\* The pool object can be used: it has not been destroyed.
PoolUsable == ctl.pc \notin {"terminated", "destroyed"} /\ ~ctl.dtor

\* enqueue(t) has returned; its locals are gone.
Returned == [pc |-> "done", index |-> 0, i |-> 0, cur |-> 0, k |-> 0]

\* task->next_ = nullptr; task->prev_link_ = nullptr;
\* index = line_to_push_to_.fetch_add(1, relaxed) % work_line_count;
EStart(t) ==
  /\ PoolUsable /\ enq[t].pc = "idle"
  /\ next_' = [next_ EXCEPT ![t] = NoTask]
  /\ prev_link_' = [prev_link_ EXCEPT ![t] = NoLink]
  /\ line_to_push_to_' = UIntInc(line_to_push_to_)
  /\ enq' = [enq EXCEPT ![t].pc = "try", ![t].index = UIntMod(line_to_push_to_, nw),
                        ![t].i = 0]
  /\ UNCHANGED <<contexts, spawnVars, nw, threads_size, tasks_stack_, worker_data_, bottleneck_, num_tasks_,
                 stop_requested_, wakeVars, wk, ext, ctl, obs>>

\* An enqueue that tries the line of its start index every time round.
PushLineNoRotate(t) == enq[t].index

\* The line enqueue(t) is trying: (index + i) % work_line_count.
PushLine(t) == (enq[t].index + enq[t].i) % nw

\* One iteration of for (i = 0; i < work_line_count; i++): try_push's try_to_lock.
\* After the last failed iteration enqueue falls back to the blocking push.
ETryPush(t) ==
  /\ Alive /\ enq[t].pc = "try"
  /\ IF bottleneck_[PushLine(t)]
     THEN /\ enq' = [enq EXCEPT ![t].i = @ + 1,
                                ![t].pc = IF enq[t].i + 1 >= nw THEN "force" ELSE "try"]
          /\ UNCHANGED bottleneck_
     ELSE /\ bottleneck_' = [bottleneck_ EXCEPT ![PushLine(t)] = TRUE]
          /\ enq' = [enq EXCEPT ![t].pc = "push_body", ![t].cur = PushLine(t)]
  /\ UNCHANGED <<contexts, spawnVars, nw, threads_size, listVars, num_tasks_, line_to_push_to_,
                 stop_requested_, wakeVars, wk, ext, ctl, obs>>

\* work_lines_[index % work_line_count].push(task): the blocking lock.
EForce(t) ==
  /\ Alive /\ enq[t].pc = "force"
  /\ ~bottleneck_[enq[t].index % nw]
  /\ bottleneck_' = [bottleneck_ EXCEPT ![enq[t].index % nw] = TRUE]
  /\ enq' = [enq EXCEPT ![t].pc = "push_body", ![t].cur = enq[t].index % nw]
  /\ UNCHANGED <<contexts, spawnVars, nw, threads_size, listVars, num_tasks_, line_to_push_to_,
                 stop_requested_, wakeVars, wk, ext, ctl, obs>>

\* push_unprotected(task) and the release of the lock.
EPushBody(t) ==
  /\ Alive /\ enq[t].pc = "push_body"
  /\ SetList(PushUnprotected(t, enq[t].cur))
  /\ bottleneck_' = [bottleneck_ EXCEPT ![enq[t].cur] = FALSE]
  /\ enq' = [enq EXCEPT ![t].pc = "n_inc"]
  /\ obs' = [obs EXCEPT !.pushed[t] = @ + 1]
  /\ UNCHANGED <<contexts, spawnVars, nw, threads_size, num_tasks_, line_to_push_to_,
                 stop_requested_, wakeVars, wk, ext, ctl>>

\* The comparison of notify_one the wrong way round.
NotifyWhenBusy(old) == old > threads_size

\* notify_one: the threshold below which notify_one looks for a worker to wake.
NotifyWanted(old) == old <= threads_size

\* notify_one: int old = num_tasks_.fetch_add(1, relaxed); if (old <= int(threads_.size()))
ENotifyInc(t) ==
  /\ Alive /\ enq[t].pc = "n_inc"
  /\ num_tasks_' = num_tasks_ + 1
  /\ enq' = IF NotifyWanted(num_tasks_) /\ threads_size > 0
            THEN [enq EXCEPT ![t].k = 0, ![t].pc = "n_try"]
            ELSE [enq EXCEPT ![t] = Returned]
  /\ UNCHANGED <<contexts, spawnVars, nw, threads_size, listVars, bottleneck_, line_to_push_to_,
                 stop_requested_, wakeVars, wk, ext, ctl, obs>>

\* notify_one: for (auto& t : threads_) if (t.try_notify(hint)) return;
\* try_notify: if (wake_requests_.fetch_add(1, acquire) == 0)
ENotifyTry(t) ==
  /\ Alive /\ enq[t].pc = "n_try"
  /\ LET k == enq[t].k IN
       /\ wake_requests_' = [wake_requests_ EXCEPT ![k] = @ + 1]
       /\ enq' = IF TryNotifyClaims(k) THEN [enq EXCEPT ![t].pc = "n_token"]
                 ELSE IF k + 1 >= threads_size THEN [enq EXCEPT ![t] = Returned]
                 ELSE [enq EXCEPT ![t].k = k + 1]
  /\ UNCHANGED <<contexts, spawnVars, nw, threads_size, listVars, bottleneck_, num_tasks_, line_to_push_to_,
                 stop_requested_, wakeup_token_, work_line_start_index_, wk, ext, ctl, obs>>

\* try_notify: work_line_start_index_.store(work_line_hint, relaxed);
\*             wakeup_token_.notify(); return true;
ENotifyToken(t) ==
  /\ Alive /\ enq[t].pc = "n_token"
  /\ work_line_start_index_' = [work_line_start_index_ EXCEPT ![enq[t].k] = enq[t].cur]
  /\ wakeup_token_' = [wakeup_token_ EXCEPT ![enq[t].k] = Notified(@)]
  /\ enq' = [enq EXCEPT ![t] = Returned]
  /\ UNCHANGED <<contexts, spawnVars, nw, threads_size, listVars, bottleneck_, num_tasks_, line_to_push_to_,
                 stop_requested_, wake_requests_, wk, ext, ctl, obs>>

\* ------------------------------------------------- thread_pool::extract_task
\* auto d = static_cast<work_line*>(task->worker_data_); bool res = d ? ... : false;
XStart(t) ==
  /\ PoolUsable /\ ext[t].pc = "idle" /\ ext[t].n < MaxExtracts
  /\ IF worker_data_[t] = NoLine
     THEN ext' = [ext EXCEPT ![t].n = @ + 1, ![t].res = FALSE, ![t].locked = FALSE]
     ELSE ext' = [ext EXCEPT ![t].pc = "lock", ![t].d = worker_data_[t]]
  /\ UNCHANGED <<contexts, spawnVars, nw, threads_size, listVars, bottleneck_, num_tasks_, line_to_push_to_,
                 stop_requested_, wakeVars, wk, enq, ctl, obs>>

\* work_line::extract_task: std::unique_lock lock{bottleneck_};
XLock(t) ==
  /\ Alive /\ ext[t].pc = "lock"
  /\ ~bottleneck_[ext[t].d]
  /\ bottleneck_' = [bottleneck_ EXCEPT ![ext[t].d] = TRUE]
  /\ ext' = [ext EXCEPT ![t].pc = "body", ![t].locked = TRUE, ![t].linked = Linked(t)]
  /\ UNCHANGED <<contexts, spawnVars, nw, threads_size, listVars, num_tasks_, line_to_push_to_,
                 stop_requested_, wakeVars, wk, enq, ctl, obs>>

\* work_line::extract_task: the unlinking under the lock, and the release of the lock.
XBody(t) ==
  /\ Alive /\ ext[t].pc = "body"
  /\ LET r == ExtractUnprotected(t) IN
       /\ SetList(r)
       /\ IF r.res
          THEN /\ ext' = [ext EXCEPT ![t].pc = "dec"]
               /\ obs' = [obs EXCEPT !.extracted[t] = @ + 1]
          ELSE /\ ext' = [ext EXCEPT ![t].pc = "idle", ![t].n = @ + 1, ![t].res = FALSE,
                                     ![t].d = 0]
               /\ UNCHANGED obs
  /\ bottleneck_' = [bottleneck_ EXCEPT ![ext[t].d] = FALSE]
  /\ UNCHANGED <<contexts, spawnVars, nw, threads_size, num_tasks_, line_to_push_to_,
                 stop_requested_, wakeVars, wk, enq, ctl>>

\* if (res) num_tasks_.fetch_sub(1, release); return res;
XDec(t) ==
  /\ Alive /\ ext[t].pc = "dec"
  /\ num_tasks_' = num_tasks_ - 1
  /\ ext' = [ext EXCEPT ![t].pc = "idle", ![t].n = @ + 1, ![t].res = TRUE, ![t].d = 0]
  /\ UNCHANGED <<contexts, spawnVars, nw, threads_size, listVars, bottleneck_, line_to_push_to_,
                 stop_requested_, wakeVars, wk, enq, ctl, obs>>

\* --------------------------------------- thread_pool::join, ~thread_pool
\* A call of join().
CJoinCall ==
  /\ ctl.pc = "idle"
  /\ ctl' = [ctl EXCEPT !.pc = "j_stop"]
  /\ UNCHANGED <<contexts, spawnVars, nw, threads_size, listVars, bottleneck_, num_tasks_, line_to_push_to_,
                 stop_requested_, wakeVars, wk, enq, ext, obs>>

\* Every enqueue call has returned and every enqueued task has been invoked by a
\* worker or taken back by an extract_task call that has returned true.
Drained ==
  \A t \in Tasks :
    /\ enq[t].pc \in {"off", "idle", "done"}
    /\ enq[t].pc = "done" =>
         \/ obs.invoked[t] = 1
         \/ obs.extracted[t] = 1 /\ ext[t].pc = "idle"

\* A destructor that also terminates when no task is left.
TerminatesAtZero(n) == n >= 0

\* ~thread_pool: the pool terminates the process when tasks are left.
DestructorTerminates(n) == n > 0

\* ~thread_pool: if (num_tasks_.load(relaxed) > 0) std::terminate(); join();
CDestroy ==
  /\ ctl.pc \in {"idle", "joined"}
  /\ ctl' = [ctl EXCEPT !.pc = IF DestructorTerminates(num_tasks_) THEN "terminated"
                               ELSE "j_stop",
                        !.dtor = TRUE, !.saw = num_tasks_, !.drained = Drained]
  /\ UNCHANGED <<contexts, spawnVars, nw, threads_size, listVars, bottleneck_, num_tasks_, line_to_push_to_,
                 stop_requested_, wakeVars, wk, enq, ext, obs>>

\* join: stop_requested_.store(true, release);
CJoinStop ==
  /\ ctl.pc = "j_stop"
  /\ stop_requested_' = TRUE
  /\ ctl' = [ctl EXCEPT !.pc = IF threads_size > 0 THEN "j_try" ELSE "j_join", !.k = 0]
  /\ UNCHANGED <<contexts, spawnVars, nw, threads_size, listVars, bottleneck_, num_tasks_, line_to_push_to_,
                 wakeVars, wk, enq, ext, obs>>

\* join: for (auto& t : threads_) t.try_notify(0);  try_notify's fetch_add.
CJoinTry ==
  /\ ctl.pc = "j_try"
  /\ wake_requests_' = [wake_requests_ EXCEPT ![ctl.k] = @ + 1]
  /\ ctl' = [ctl EXCEPT !.pc = IF TryNotifyClaims(ctl.k) THEN "j_token"
                               ELSE IF ctl.k + 1 >= threads_size THEN "j_join"
                               ELSE "j_try",
                        !.k = IF TryNotifyClaims(ctl.k) THEN ctl.k ELSE ctl.k + 1]
  /\ UNCHANGED <<contexts, spawnVars, nw, threads_size, listVars, bottleneck_, num_tasks_, line_to_push_to_,
                 stop_requested_, wakeup_token_, work_line_start_index_, wk, enq, ext, obs>>

\* try_notify(0): work_line_start_index_.store(0, relaxed); wakeup_token_.notify();
CJoinToken ==
  /\ ctl.pc = "j_token"
  /\ work_line_start_index_' = [work_line_start_index_ EXCEPT ![ctl.k] = 0]
  /\ wakeup_token_' = [wakeup_token_ EXCEPT ![ctl.k] = Notified(@)]
  /\ ctl' = [ctl EXCEPT !.pc = IF ctl.k + 1 >= threads_size THEN "j_join" ELSE "j_try",
                        !.k = @ + 1]
  /\ UNCHANGED <<contexts, spawnVars, nw, threads_size, listVars, bottleneck_, num_tasks_, line_to_push_to_,
                 stop_requested_, wake_requests_, wk, enq, ext, obs>>

\* A join that does not wait for the last thread.
JoinSkipsLast == 0 .. (threads_size - 2)

\* join: the threads join() waits for before it returns.
JoinWaitsFor == 0 .. (threads_size - 1)

\* join: for (auto& t : threads_) t.join(); threads_.clear();
CJoinWait ==
  /\ ctl.pc = "j_join"
  /\ \A w \in JoinWaitsFor : wk[w].pc = "exited"
  /\ threads_size' = 0
  /\ ctl' = [ctl EXCEPT !.pc = IF ctl.dtor THEN "destroyed" ELSE "joined"]
  /\ UNCHANGED <<contexts, spawnVars, nw, listVars, bottleneck_, num_tasks_, line_to_push_to_,
                 stop_requested_, wakeVars, wk, enq, ext, obs>>

\* ------------------------------------------------------------ spawn, await
\* The value the function of frame f returns.
UserValue(f) == 12 + f

\* spawn(f): the frame is initialised and its task is handed to enqueue().
SSpawn ==
  /\ Alive /\ sp.pc = "spawn"
  /\ task_function_' = [task_function_ EXCEPT ![sp.f] = "execute_spawn_task"]
  /\ sync_state_' = [sync_state_ EXCEPT ![sp.f] = "initial"]
  /\ enq' = [enq EXCEPT ![sp.f].pc = "idle"]
  /\ sp' = [sp EXCEPT !.pc = "enqueue"]
  /\ UNCHANGED <<contexts, originator_, secondary_thread_, result_, caller_k, co, flowVars, nw,
                 threads_size, listVars, bottleneck_, num_tasks_, line_to_push_to_,
                 stop_requested_, wakeVars, wk, ext, ctl, obs>>

\* enqueue() has returned: the spawner goes on with its next spawn, or its first await.
SSpawned ==
  /\ Alive /\ sp.pc = "enqueue" /\ enq[sp.f].pc = "done"
  /\ sp' = [sp EXCEPT !.pc = IF sp.f < sp.n THEN "spawn" ELSE "await",
                      !.f = IF sp.f < sp.n THEN sp.f + 1 ELSE 1]
  /\ UNCHANGED <<contexts, frameVars, co, flowVars, poolVars>>

\* An await that goes on without looking at what the exchange has returned.
AwaitNeverSuspends(prev) == FALSE

\* An await that gives its OS thread away whatever the exchange has returned.
AwaitAlwaysSuspends(prev) == TRUE

\* await: the spawner is suspended when the function has not finished yet.
AwaitSuspends(prev) == prev = "initial"

\* await: callcc, originator_.store(my_k), sync_state_.exchange(main_finished).
\* When the spawner is suspended its OS thread stays inside the callcc.
SAwait ==
  /\ Alive /\ sp.pc = "await"
  /\ originator_' = [originator_ EXCEPT ![sp.f] = <<"await", sp.f>>]
  /\ sync_state_' = [sync_state_ EXCEPT ![sp.f] = "main_finished"]
  /\ obs' = [obs EXCEPT !.awaitOn[sp.f] = thr.main, !.awaitPrev[sp.f] = sync_state_[sp.f]]
  /\ IF AwaitSuspends(sync_state_[sp.f])
     THEN /\ sp' = [sp EXCEPT !.pc = "suspended", !.prev = sync_state_[sp.f]]
          /\ inv' = [inv EXCEPT ![sp.f] = thr.main]
          /\ thr' = [thr EXCEPT !.main = NoThread]
     ELSE /\ sp' = [sp EXCEPT !.pc = "aw_load", !.prev = sync_state_[sp.f]]
          /\ UNCHANGED flowVars
  /\ UNCHANGED <<contexts, task_function_, secondary_thread_, result_, caller_k, co, nw, threads_size,
                 listVars, bottleneck_, num_tasks_, line_to_push_to_, stop_requested_,
                 wakeVars, wk, enq, ext, ctl>>

\* await, prev = initial: the OS thread of the spawner resumes the worker loop that
\* was suspended when the task of the frame was dispatched.
SAwaitInvert(f) ==
  /\ Alive /\ inv[f] # NoThread /\ caller_k[f] # NoThread
  /\ wk[caller_k[f]].pc = "in_task" /\ wk[caller_k[f]].task = f
  /\ wk' = [wk EXCEPT ![caller_k[f]].pc = "loop", ![caller_k[f]].task = NoTask]
  /\ thr' = [thr EXCEPT !.loop[caller_k[f]] = inv[f]]
  /\ inv' = [inv EXCEPT ![f] = NoThread]
  /\ obs' = [obs EXCEPT !.lentTo[f] = caller_k[f]]
  /\ UNCHANGED <<contexts, frameVars, co, sp, nw, threads_size, listVars, bottleneck_, num_tasks_,
                 line_to_push_to_, stop_requested_, wakeVars, enq, ext, ctl>>

\* await, prev = async_finished: secondary_thread_.load(acquire).
SAwaitLoad ==
  /\ Alive /\ sp.pc = "aw_load"
  /\ sp' = [sp EXCEPT !.pc = "aw_ret", !.loaded = secondary_thread_[sp.f]]
  /\ UNCHANGED <<contexts, frameVars, co, flowVars, poolVars>>

\* await returns the value held by the frame; the spawner goes on with its next await.
SAwaitRet ==
  /\ Alive /\ sp.pc = "aw_ret"
  /\ sp' = [sp EXCEPT !.pc = IF sp.f < sp.n THEN "await" ELSE "done",
                      !.f = IF sp.f < sp.n THEN sp.f + 1 ELSE sp.f,
                      !.ret[sp.f] = result_[sp.f]]
  /\ obs' = [obs EXCEPT !.retOn[sp.f] = thr.main]
  /\ UNCHANGED <<contexts, frameVars, co, flowVars, nw, threads_size, listVars, bottleneck_,
                 num_tasks_, line_to_push_to_, stop_requested_, wakeVars, wk, enq, ext, ctl>>

\* After its last await the spawner joins the pool.
SJoin ==
  /\ sp.pc = "done" /\ ctl.pc = "idle"
  /\ ctl' = [ctl EXCEPT !.pc = "j_stop"]
  /\ UNCHANGED <<contexts, spawnVars, nw, threads_size, listVars, bottleneck_, num_tasks_,
                 line_to_push_to_, stop_requested_, wakeVars, wk, enq, ext, obs>>

\* execute_spawn_task, inside callcc: user_function(frame) writes the result slot.
OUser(f) ==
  /\ Alive /\ co[f].pc = "user"
  /\ result_' = [result_ EXCEPT ![f] = UserValue(f)]
  /\ co' = [co EXCEPT ![f].pc = "oac"]
  /\ obs' = [obs EXCEPT !.ran[f] = @ + 1]
  /\ UNCHANGED <<contexts, task_function_, sync_state_, originator_, secondary_thread_, caller_k, sp,
                 flowVars, nw, threads_size, listVars, bottleneck_, num_tasks_,
                 line_to_push_to_, stop_requested_, wakeVars, wk, enq, ext, ctl>>

\* An on_async_complete that jumps to the originator whatever the exchange returned.
CompleteAlwaysJumps(prev) == TRUE

\* on_async_complete: the spawner is already suspended in await.
CompleteJumps(prev) == prev = "main_finished"

\* on_async_complete: prev = sync_state_.exchange(async_finished, acq_rel).
OExchange(f) ==
  /\ Alive /\ co[f].pc = "oac"
  /\ sync_state_' = [sync_state_ EXCEPT ![f] = "async_finished"]
  /\ co' = [co EXCEPT ![f].pc = IF CompleteJumps(sync_state_[f]) THEN "oac_jump"
                                ELSE "oac_store",
                      ![f].prev = sync_state_[f]]
  /\ obs' = [obs EXCEPT !.doneOn[f] = thr.co[f]]
  /\ UNCHANGED <<contexts, task_function_, originator_, secondary_thread_, result_, caller_k, sp,
                 flowVars, nw, threads_size, listVars, bottleneck_, num_tasks_,
                 line_to_push_to_, stop_requested_, wakeVars, wk, enq, ext, ctl>>

\* on_async_complete, prev = initial: secondary_thread_.store(worker_k, release) and
\* return caller_k: the worker loop goes on, on the OS thread that ran the function.
OStore(f) ==
  /\ Alive /\ co[f].pc = "oac_store"
  /\ wk[caller_k[f]].pc = "in_task" /\ wk[caller_k[f]].task = f
  /\ secondary_thread_' = [secondary_thread_ EXCEPT ![f] = <<"task", f>>]
  /\ wk' = [wk EXCEPT ![caller_k[f]].pc = "loop", ![caller_k[f]].task = NoTask]
  /\ thr' = [thr EXCEPT !.loop[caller_k[f]] = thr.co[f], !.co[f] = NoThread]
  /\ co' = [co EXCEPT ![f].pc = "gone"]
  /\ obs' = [obs EXCEPT !.backOn[f] = thr.co[f]]
  /\ UNCHANGED <<contexts, task_function_, sync_state_, originator_, result_, caller_k, sp, inv, nw,
                 threads_size, listVars, bottleneck_, num_tasks_, line_to_push_to_,
                 stop_requested_, wakeVars, enq, ext, ctl>>

\* on_async_complete, prev = main_finished: originator_.load(acquire) and the jump
\* to it: the spawner goes on after await, on the OS thread that ran the function.
OJump(f) ==
  /\ Alive /\ co[f].pc = "oac_jump"
  /\ originator_[f] = <<"await", f>> /\ sp.pc = "suspended" /\ sp.f = f
  /\ sp' = [sp EXCEPT !.pc = "aw_ret"]
  /\ thr' = [thr EXCEPT !.main = thr.co[f], !.co[f] = NoThread]
  /\ co' = [co EXCEPT ![f].pc = "gone"]
  /\ UNCHANGED <<contexts, frameVars, inv, poolVars>>

\* ------------------------------------------------------ callcc, resume
\* A thread before its first callcc: it runs user code on its own stack and holds no
\* continuation.  pc says what the code on each stack is doing, held which
\* continuations (named by the stack they are suspended on) it has in hand, fctx
\* what the main function of a stack returned, data the control structure handed to
\* the exit function that is running; destroys and freedOn record the calls of
\* destroy and the stack they ran on.
NoContexts ==
  [cur |-> RootStack,
   stack_ |-> [s \in Stacks |-> "unallocated"],
   control |-> [s \in Stacks |-> "none"],
   pc |-> [x \in AllStacks |-> IF x = RootStack THEN "user" ELSE "unused"],
   held |-> [x \in AllStacks |-> {}],
   fctx |-> [s \in Stacks |-> NoStack],
   callee |-> NoStack,
   data |-> NoStack,
   destroys |-> [s \in Stacks |-> 0],
   freedOn |-> [s \in Stacks |-> NoStack]]

\* create_execution_context: allocate_stack puts the control structure on a fresh
\* stack and make_fcontext prepares execution_context_entry on it.
CAllocate ==
  LET c == contexts.cur IN
  /\ contexts.pc[c] = "user"
  /\ \E s \in Stacks :
       /\ contexts.stack_[s] = "unallocated"
       /\ \A u \in Stacks : u < s => contexts.stack_[u] # "unallocated"
       /\ contexts' = [contexts EXCEPT !.stack_[s] = "live", !.control[s] = "built",
                                       !.pc[s] = "entry", !.pc[c] = "callcc",
                                       !.callee = s]
  /\ UNCHANGED <<poolVars, spawnVars>>

\* create_execution_context: context_core_api_jump_fcontext(ctx, control); the caller
\* is suspended and execution_context_entry calls main_function_(t.fctx) on the new
\* stack, t.fctx being the continuation of the caller.
CEnter ==
  LET c == contexts.cur
      s == contexts.callee IN
  /\ contexts.pc[c] = "callcc"
  /\ contexts' = [contexts EXCEPT !.cur = s, !.pc[c] = "suspended", !.pc[s] = "user",
                                  !.held[s] = {c}, !.callee = NoStack]
  /\ UNCHANGED <<poolVars, spawnVars>>

\* resume(k): context_core_api_jump_fcontext(k, nullptr).fctx; the code suspended
\* at k goes on and receives the continuation of the code that resumed it.
CResume(k) ==
  LET c == contexts.cur IN
  /\ contexts.pc[c] = "user"
  /\ k \in contexts.held[c]
  /\ contexts' = [contexts EXCEPT !.cur = k, !.pc[c] = "suspended", !.pc[k] = "user",
                                  !.held[c] = @ \ {k}, !.held[k] = @ \cup {c}]
  /\ UNCHANGED <<poolVars, spawnVars>>

\* execution_context_entry: t.fctx = std::invoke(control->main_function_, t.fctx);
\* the main function returns a continuation it has in hand.
CMainReturns(k) ==
  LET c == contexts.cur IN
  /\ c \in Stacks
  /\ contexts.pc[c] = "user"
  /\ k \in contexts.held[c]
  /\ contexts' = [contexts EXCEPT !.pc[c] = "returned", !.fctx[c] = k, !.held[c] = @ \ {k}]
  /\ UNCHANGED <<poolVars, spawnVars>>

\* An entry function that runs the exit function on its own stack.
ExitOnOwnStack(dying, k) == dying

\* context_core_api_ontop_fcontext(t.fctx, control, exit): the stack the exit function
\* runs on is the one of the continuation that is resumed.
ExitStack(dying, k) == k

\* execution_context_entry: context_core_api_ontop_fcontext(t.fctx, control,
\* execution_context_exit<C>): the continuation the main function returned is resumed
\* with execution_context_exit(t) on top of it, t.data being the control structure;
\* the continuation of the entry function is dropped.
CExitJump ==
  LET c == contexts.cur
      on == ExitStack(c, contexts.fctx[c]) IN
  /\ contexts.pc[c] = "returned"
  /\ contexts' = [contexts EXCEPT !.cur = on, !.pc[c] = "dead", !.pc[on] = "exit",
                                  !.data = c]
  /\ UNCHANGED <<poolVars, spawnVars>>

\* destroy(record): S allocator = std::move(record->allocator_); stack_t stack =
\* record->stack_; record->~stack_control_structure();
CDestruct ==
  LET c == contexts.cur
      d == contexts.data IN
  /\ contexts.pc[c] = "exit"
  /\ contexts.control[d] = "built"
  /\ contexts' = [contexts EXCEPT !.control[d] = "destructed"]
  /\ UNCHANGED <<poolVars, spawnVars>>

\* destroy(record): allocator.deallocate(stack);
CDeallocate ==
  LET c == contexts.cur
      d == contexts.data IN
  /\ contexts.pc[c] = "exit"
  /\ contexts.control[d] = "destructed"
  /\ contexts.stack_[d] = "live"
  /\ contexts' = [contexts EXCEPT !.stack_[d] = "freed", !.destroys[d] = @ + 1,
                                  !.freedOn[d] = c]
  /\ UNCHANGED <<poolVars, spawnVars>>

\* execution_context_exit: return {nullptr, nullptr}; the resumed code goes on and
\* receives a null continuation.
CExitReturn ==
  LET c == contexts.cur
      d == contexts.data IN
  /\ contexts.pc[c] = "exit"
  /\ contexts.stack_[d] = "freed"
  /\ contexts' = [contexts EXCEPT !.pc[c] = "user", !.data = NoStack]
  /\ UNCHANGED <<poolVars, spawnVars>>

\* ------------------------------------------------------------ behaviours
\* A pool of n threads at the top of thread_main's loop with nothing queued, on which
\* enqueue has been called c times so far.  With used = FALSE this is the pool right
\* after thread_pool(n); with used = TRUE every worker has been through sleep() since
\* (token invalidated, hint reloaded from work_line_start_index_).  Clients are going
\* to enqueue the tasks of eLive and to call extract_task on those of xLive.
PoolAt(n, eLive, xLive, k, c, used) ==
  /\ nw = n
  /\ threads_size = n
  /\ tasks_stack_ = [l \in Workers |-> NoTask]
  /\ next_ = [t \in Tasks |-> NoTask]
  /\ prev_link_ = [t \in Tasks |-> NoLink]
  /\ worker_data_ = [t \in Tasks |-> NoLine]
  /\ bottleneck_ = [l \in Workers |-> FALSE]
  /\ num_tasks_ = 0
  /\ line_to_push_to_ = c
  /\ stop_requested_ = FALSE
  /\ wake_requests_ = [w \in Workers |-> 1]
  /\ wakeup_token_ = [w \in Workers |-> IF used THEN "invalid" ELSE "none"]
  /\ work_line_start_index_ = [w \in Workers |-> 0]
  /\ wk = [w \in Workers |-> [pc |-> IF w < n THEN "loop" ELSE "off",
                              hint |-> IF used THEN 0 ELSE w, i |-> 0,
                              task |-> NoTask, line |-> 0, checked |-> FALSE]]
  /\ enq = [t \in Tasks |-> [pc |-> IF t \in eLive THEN "idle" ELSE "off",
                             index |-> 0, i |-> 0, cur |-> 0, k |-> 0]]
  /\ ext = [t \in Tasks |-> [pc |-> IF t \in xLive THEN "idle" ELSE "off", d |-> 0, n |-> 0,
                             res |-> FALSE, locked |-> FALSE, linked |-> FALSE]]
  /\ ctl = [pc |-> "idle", k |-> 0, dtor |-> FALSE, saw |-> 0, drained |-> FALSE]
  /\ task_function_ = [t \in Tasks |-> "plain"]
  /\ sync_state_ = [f \in Tasks |-> "initial"]
  /\ originator_ = [f \in Tasks |-> NoCont]
  /\ secondary_thread_ = [f \in Tasks |-> NoCont]
  /\ result_ = [f \in Tasks |-> 0]
  /\ caller_k = [f \in Tasks |-> NoThread]
  /\ co = [f \in Tasks |-> [pc |-> "none", prev |-> "none"]]
  /\ sp = [pc |-> IF k > 0 THEN "spawn" ELSE "off", f |-> IF k > 0 THEN 1 ELSE 0, n |-> k, prev |-> "none", loaded |-> NoCont,
           ret |-> [f \in Tasks |-> 0]]
  /\ inv = [f \in Tasks |-> NoThread]
  /\ thr = [main |-> MainThread, loop |-> [w \in Workers |-> IF w < n THEN w ELSE NoThread],
            co |-> [f \in Tasks |-> NoThread]]
  /\ obs = [pushed |-> [t \in Tasks |-> 0], popped |-> [t \in Tasks |-> 0],
            invoked |-> [t \in Tasks |-> 0],
            extracted |-> [t \in Tasks |-> 0],
            lateInvoke |-> FALSE,
            awaitPrev |-> [f \in Tasks |-> "none"],
            ran |-> [f \in Tasks |-> 0], startOn |-> [f \in Tasks |-> NoThread], lentTo |-> [f \in Tasks |-> NoThread],
            awaitOn |-> [f \in Tasks |-> NoThread], retOn |-> [f \in Tasks |-> NoThread],
            doneOn |-> [f \in Tasks |-> NoThread], backOn |-> [f \in Tasks |-> NoThread]]
  /\ contexts = NoContexts

\* The pool after thread_pool(n): its n threads have entered thread_main.
InitPool(n, eLive, xLive, k) == PoolAt(n, eLive, xLive, k, [hi |-> 0, lo |-> 0], FALSE)

\* The steps of a worker while stop is not requested, and all of its steps.
WorkerRun(w) ==
  \/ WLoop(w) \/ WLoadTasks(w)
  \/ WSleepDec(w) \/ WSleepCheck(w) \/ WWake(w) \/ WSleepEnd(w)
  \/ WTryPop(w) \/ WPopBody(w) \/ WDec(w) \/ WExec(w)

WorkerStep(w) == WorkerRun(w) \/ WRevert(w)

\* A client hands the task object to enqueue() again, after its function has run.
EAgain(t) ==
  /\ PoolUsable /\ enq[t].pc = "done"
  /\ obs.pushed[t] < MaxEnqueues
  /\ obs.invoked[t] = obs.pushed[t]
  /\ enq' = [enq EXCEPT ![t].pc = "idle"]
  /\ UNCHANGED <<contexts, spawnVars, nw, threads_size, listVars, bottleneck_, num_tasks_, line_to_push_to_,
                 stop_requested_, wakeVars, wk, ext, ctl, obs>>

EnqueueStep(t) ==
  \/ EStart(t) \/ ETryPush(t) \/ EForce(t) \/ EPushBody(t)
  \/ ENotifyInc(t) \/ ENotifyTry(t) \/ ENotifyToken(t)

ExtractStep(t) == XStart(t) \/ XLock(t) \/ XBody(t) \/ XDec(t)

OwnerStep ==
  \/ CJoinCall \/ CDestroy \/ CJoinStop \/ CJoinTry \/ CJoinToken \/ CJoinWait

vars == <<poolVars, spawnVars, contexts>>

\* The shapes of pool a behaviour starts from: the widest pool with one task, and
\* the one-thread pool with several tasks.
PoolShapes ==
  \/ InitPool(MaxWorkers, {1}, {1}, 0)
  \/ InitPool(1, SomeTasks, SomeTasks, 0)

PoolActions ==
  \/ \E w \in Workers : WorkerRun(w)
  \/ \E t \in Tasks : EnqueueStep(t)
  \/ \E t \in Tasks : ExtractStep(t)

\* Clients enqueue and extract tasks while the workers run; the pool is never stopped.
Init == PoolShapes \/ InitPool(MaxWorkers, SomeTasks, {}, 0)

Next == PoolActions

Spec == Init /\ [][Next]_vars

\* The same with the owner of the pool calling join() or destroying the pool at any time.
InitStop ==
  \/ InitPool(MaxWorkers, {1}, {}, 0)
  \/ InitPool(1, SomeTasks, {1}, 0)

NextStop == PoolActions \/ OwnerStep \/ \E w \in Workers : WRevert(w)

SpecStop == InitStop /\ [][NextStop]_vars

\* A flow spawns its functions, awaits them in the order of the spawns and joins the pool.
SpawnerStep ==
  \/ SSpawn \/ SSpawned \/ SAwait \/ SAwaitLoad \/ SAwaitRet \/ SJoin
  \/ \E f \in Tasks : SAwaitInvert(f)

FrameStep(f) == OUser(f) \/ OExchange(f) \/ OStore(f) \/ OJump(f)

\* The widest pool with one spawn, and the one-thread pool with every spawn.
InitSpawn ==
  \/ InitPool(MaxWorkers, {}, {}, 1)
  \/ InitPool(1, {}, {}, MaxSpawns)

NextSpawn ==
  \/ \E w \in Workers : WorkerStep(w)
  \/ \E t \in Tasks : EnqueueStep(t)
  \/ SpawnerStep
  \/ \E f \in Tasks : FrameStep(f)
  \/ CJoinStop \/ CJoinTry \/ CJoinToken \/ CJoinWait

SpecSpawn == InitSpawn /\ [][NextSpawn]_vars

\* Every spawn on the widest pool, up to the return of the last await.
InitSpawnAll == InitPool(MaxWorkers, {}, {}, MaxSpawns)

NextSpawnAll ==
  \/ \E w \in Workers : WorkerRun(w)
  \/ \E t \in Tasks : EnqueueStep(t)
  \/ SSpawn \/ SSpawned \/ SAwait \/ SAwaitLoad \/ SAwaitRet
  \/ \E f \in Tasks : SAwaitInvert(f)
  \/ \E f \in Tasks : FrameStep(f)

SpecSpawnAll == InitSpawnAll /\ [][NextSpawnAll]_vars

\* Enqueues and workers only, every thread taking steps for as long as it can.
InitLive ==
  \/ InitPool(MaxWorkers, {1}, {}, 0)
  \/ InitPool(1, SomeTasks, {}, 0)

NextLive ==
  \/ \E w \in Workers : WorkerRun(w)
  \/ \E t \in Tasks : EnqueueStep(t)

\* A burst of enqueues, one per task object, on a pool of one thread.
InitBurst == InitPool(1, Tasks, {}, 0)

SpecBurst == InitBurst /\ [][NextLive]_vars

\* One task object is enqueued, run and enqueued again while a client calls
\* extract_task on it.
InitAgain == InitPool(MaxWorkers, {1}, {1}, 0)
NextAgain == PoolActions \/ \E t \in Tasks : EAgain(t)
SpecAgain == InitAgain /\ [][NextAgain]_vars

\* A thread calls callcc, and the code on each stack goes on calling callcc, resuming
\* the continuations it holds or returning one of them from its main function.
InitCallcc == InitPool(1, {}, {}, 0)
NextCallcc ==
  \/ CAllocate \/ CEnter
  \/ \E k \in AllStacks : CResume(k) \/ CMainReturns(k)
  \/ CExitJump \/ CDestruct \/ CDeallocate \/ CExitReturn
SpecCallcc == InitCallcc /\ [][NextCallcc]_vars

\* enqueue on a pool whose counter line_to_push_to_ stands at 2^32 - 2: the second
\* fetch_add from here wraps it to 0.
NearWrap == [hi |-> Half - 1, lo |-> Half - 2]
InitWrap ==
  \/ PoolAt(MaxWorkers, SomeTasks, {}, 0, NearWrap, TRUE)
  \/ PoolAt(1, Tasks, {}, 0, NearWrap, TRUE)
SpecWrap == InitWrap /\ [][NextLive]_vars

SpecLive ==
  /\ InitLive
  /\ [][NextLive]_vars
  /\ \A w \in Workers : WF_vars(WorkerRun(w))
  /\ \A t \in Tasks : WF_vars(EnqueueStep(t))

\* The owner calls join() or destroys the pool while one task is being enqueued, with
\* every thread kept running by the scheduler: the workers, the clients inside enqueue
\* and extract_task, and the owner inside join.
InitJoin ==
  \/ InitPool(MaxWorkers, {1}, {}, 0)
  \/ InitPool(1, {1}, {1}, 0)
SpecJoin ==
  /\ InitJoin
  /\ [][NextStop]_vars
  /\ \A w \in Workers : WF_vars(WorkerStep(w))
  /\ \A t \in Tasks : WF_vars(EnqueueStep(t)) /\ WF_vars(ExtractStep(t))
  /\ WF_vars(CJoinStop \/ CJoinTry \/ CJoinToken \/ CJoinWait)

\* ------------------------------------------------------------------ claims
\* await has returned for frame f.
AwaitReturned(f) == obs.retOn[f] # NoThread

\* The function of frame f has run to its end.
Completed(f) == obs.ran[f] = 1 /\ co[f].pc \in {"oac", "oac_store", "oac_jump", "gone"}

Holders(t) == {w \in Threads : wk[w].pc \in {"dec", "exec"} /\ wk[w].task = t}

\* C2: no task function is invoked more than once: a task is taken out of its work
\* line at most once, by one try_pop or by one extract_task, and every pop is followed
\* by exactly one call of the function, made by the worker that holds the popped task.
C2_NoTaskRunsTwice ==
  \A t \in Tasks :
    /\ obs.invoked[t] <= 1
    /\ obs.popped[t] + obs.extracted[t] <= 1
    /\ obs.popped[t] = obs.invoked[t] + Cardinality(Holders(t))

\* A worker is about to run a task it has stolen from the line of another worker.
C2_Witness ==
  \E w \in Threads : wk[w].pc = "exec" /\ wk[w].line # w /\ obs.popped[wk[w].task] = 1

Increments == Cardinality({t \in Tasks : enq[t].pc \in {"n_try", "n_token", "done"}})
PopDecrements ==
  Cardinality({t \in Tasks : obs.popped[t] = 1})
    - Cardinality({w \in Threads : wk[w].pc = "dec"})
ExtractDecrements ==
  Cardinality({t \in Tasks : obs.extracted[t] = 1})
    - Cardinality({t \in Tasks : ext[t].pc = "dec"})

\* C4: extract_task(t) returns true exactly when t is linked in a work line at the
\* moment the lock of the line is taken; a task extracted is never run and takes 1
\* off num_tasks_ once; a call that returns false changes no line and no counter.
C4_ExtractState ==
  /\ \A t \in Tasks :
       /\ (ext[t].n > 0 /\ ext[t].pc = "idle") =>
            (ext[t].res <=> (ext[t].locked /\ ext[t].linked))
       /\ obs.extracted[t] >= 1 => obs.invoked[t] = 0 /\ Holders(t) = {}
  /\ num_tasks_ = Increments - PopDecrements - ExtractDecrements

C4_FalseChangesNothing ==
  \A t \in Tasks :
    (ext'[t].n = ext[t].n + 1 /\ ~ext'[t].res) => UNCHANGED <<listVars, num_tasks_>>

C4_Extract == [](C4_ExtractState) /\ [][C4_FalseChangesNothing]_vars

\* extract_task(t) has returned true while enqueue(t) has not yet counted the task.
C4_Witness ==
  \E t \in Tasks : ext[t].n = 1 /\ ext[t].res /\ enq[t].pc = "n_inc" /\ num_tasks_ = -1

\* C9: the destructor terminates the process exactly when it reads num_tasks_ > 0 and
\* joins the workers otherwise; a drained pool has num_tasks_ = 0 and is destroyed
\* without terminating.
C9_Destructor ==
  /\ ctl.dtor => (ctl.pc = "terminated" <=> ctl.saw > 0)
  /\ Drained => num_tasks_ = 0
  /\ (ctl.dtor /\ ctl.drained) => ctl.pc # "terminated"
  /\ ctl.pc = "destroyed" => \A w \in Threads : wk[w].pc = "exited"

\* A pool whose tasks have been run has been destroyed.
C9_Witness ==
  /\ ctl.pc = "destroyed" /\ ctl.drained
  /\ \E t \in Tasks : obs.invoked[t] = 1

\* C10: once join() has returned every worker has left thread_main, and no task
\* function is invoked from then on.
C10_NoRunAfterJoin ==
  /\ ~obs.lateInvoke
  /\ ctl.pc \in {"joined", "destroyed"} => \A w \in Threads : wk[w].pc = "exited"

\* join() has returned and a task whose enqueue has returned is still in a work line.
C10_Witness ==
  /\ ctl.pc = "joined"
  /\ \E t \in Tasks : Linked(t) /\ enq[t].pc = "done"

\* C11: sync_state_ starts at initial and changes only in the exchange of await (to
\* main_finished) and in the exchange of on_async_complete (to async_finished); of the
\* two exchanges on a frame exactly one returns initial and the other returns what the
\* first has written; the party that got initial never takes the arrived-second branch
\* and the other party always does.
C11_Exchanges ==
  \A f \in Tasks :
    LET a == obs.awaitPrev[f]
        w == co[f].prev IN
    /\ (a = "none" /\ w = "none") => sync_state_[f] = "initial"
    /\ (a # "none" /\ w = "none") => (a = "initial" /\ sync_state_[f] = "main_finished")
    /\ (a = "none" /\ w # "none") => (w = "initial" /\ sync_state_[f] = "async_finished")
    /\ (a # "none" /\ w # "none") =>
         \/ a = "initial" /\ w = "main_finished" /\ sync_state_[f] = "async_finished"
         \/ w = "initial" /\ a = "async_finished" /\ sync_state_[f] = "main_finished"
    /\ (sp.f = f /\ sp.pc = "suspended") => a = "initial"
    /\ (sp.f = f /\ sp.pc = "aw_load") => a = "async_finished"
    /\ co[f].pc = "oac_store" => w = "initial"
    /\ co[f].pc = "oac_jump" => w = "main_finished"

C11_OnlyExchangesWrite ==
  \A f \in Tasks :
    sync_state_'[f] # sync_state_[f] =>
      \/ /\ sync_state_'[f] = "main_finished"
         /\ obs.awaitPrev[f] = "none" /\ obs'.awaitPrev[f] = sync_state_[f]
      \/ /\ sync_state_'[f] = "async_finished"
         /\ co[f].prev = "none" /\ co'[f].prev = sync_state_[f]

C11_Linearization == [](C11_Exchanges) /\ [][C11_OnlyExchangesWrite]_vars

\* Both orders have happened: on frame 1 await was first, on frame 2 the worker.
C11_Witness ==
  /\ obs.awaitPrev[1] = "initial" /\ co[1].prev = "main_finished" /\ co[1].pc = "gone"
  /\ obs.awaitPrev[2] = "async_finished" /\ co[2].prev = "initial" /\ sp.pc = "done"

\* C12: the party that arrives second reads a slot the first party has written: when
\* on_async_complete has observed main_finished the originator slot holds the
\* continuation stored by await, and when await has observed async_finished the value
\* it loads from the secondary slot is the continuation stored by on_async_complete.
C12_SecondReadsWrittenSlot ==
  /\ \A f \in Tasks : co[f].pc = "oac_jump" => originator_[f] = <<"await", f>>
  /\ (sp.pc = "aw_ret" /\ obs.awaitPrev[sp.f] = "async_finished") =>
       sp.loaded = <<"task", sp.f>>

\* Worker w is parked in sleep() and no try_notify has claimed its wake-up.
ParkedUnnotified(w) == wk[w].pc = "parked" /\ wake_requests_[w] = 0

\* C13: with stop not requested, it is never the case that every worker is parked in
\* sleep(), with no notification on its way, while a work line holds a task whose
\* enqueue call has returned.
C13_NoPublishedTaskUnattended ==
  ~stop_requested_ =>
    ~ /\ \A w \in Threads : ParkedUnnotified(w)
      /\ \E t \in Tasks : Linked(t) /\ enq[t].pc = "done"

\* C14: whenever notify_one skips the notification (num_tasks_ before its increment is
\* greater than the number of threads), at least one worker is not parked unattended
\* at that moment: it is awake, or a try_notify has claimed its wake-up.
C14_SkipStep ==
  \A t \in Tasks :
    (enq[t].pc = "n_inc" /\ enq'[t].pc = "done" /\ threads_size > 0) =>
      \E w \in Threads : ~ParkedUnnotified(w)

C14_SkipFindsWorkerUp == [][C14_SkipStep]_vars


\* The notifiers that have won worker w's wake-up (their fetch_add returned 0) and
\* have not yet stored the hint and notified the token.
Claimers(w) ==
  {<<"enqueue", t>> : t \in {u \in Tasks : enq[u].pc = "n_token" /\ enq[u].k = w}}
    \cup (IF ctl.pc = "j_token" /\ ctl.k = w THEN {<<"join", 0>>} ELSE {})

\* The part of the worker's sleep() between its fetch_sub and its store(1).
InSleep(w) == wk[w].pc \in {"sleep_check", "parked", "sleep_end"}

C15_Counts ==
  \A w \in Threads :
    /\ wake_requests_[w] >= 0
    /\ wake_requests_[w] = 0 => InSleep(w)
    /\ Cardinality(Claimers(w)) <= 1
    /\ Claimers(w) # {} => wake_requests_[w] >= 1
    /\ (Claimers(w) # {} /\ ~stop_requested_) => wk[w].pc \in {"sleep_check", "parked"}

C15_Steps ==
  \A w \in Threads :
    /\ (wk[w].pc # "sleep_check" /\ wk'[w].pc = "sleep_check")
         => (wk[w].pc = "sleep_dec" /\ wake_requests_[w] = 1 /\ wake_requests_'[w] = 0)
    /\ (wk[w].pc # "parked" /\ wk'[w].pc = "parked")
         => (wk[w].pc = "sleep_check" /\ ~stop_requested_)
    /\ (Claimers(w) # Claimers(w)' /\ Claimers(w)' # {})
         => (wake_requests_[w] = 0 /\ wake_requests_'[w] = 1)
    /\ (wake_requests_'[w] = wake_requests_[w] + 1 /\ wake_requests_[w] > 0)
         => (/\ Claimers(w)' = Claimers(w)
             /\ wakeup_token_'[w] = wakeup_token_[w]
             /\ work_line_start_index_'[w] = work_line_start_index_[w])
    /\ (\/ work_line_start_index_'[w] # work_line_start_index_[w]
        \/ (wakeup_token_'[w] = "notified" /\ wakeup_token_[w] # "notified"))
         => (Claimers(w) # {} /\ Claimers(w)' = {})

LinesOf(t) == {l \in Lines : InLine(t, l)}

C16_Calls ==
  \A t \in Tasks :
    /\ enq[t].pc \in {"n_inc", "n_try", "n_token", "done"} => obs.pushed[t] = 1
    /\ enq[t].pc \in {"idle", "try", "force", "push_body"} => obs.pushed[t] = 0
    /\ enq[t].pc \in {"try", "force", "push_body", "n_inc", "n_try", "n_token"}
         => enq[t].index \in Lines
    /\ enq[t].pc = "force" => enq[t].i = nw

C16_Steps ==
  \A t \in Tasks :
    LET e == enq[t]
        e2 == enq'[t]
        c == line_to_push_to_
        c2 == line_to_push_to_'
    IN
    /\ (e.pc = "idle" /\ e2.pc # "idle")
         => /\ c2.lo = (c.lo + 1) % Half
            /\ c2.hi = IF c.lo = Half - 1 THEN (c.hi + 1) % Half ELSE c.hi
            /\ e2.index = (((c.hi % nw) * (Half % nw)) + c.lo) % nw
            /\ e2.pc = "try" /\ e2.i = 0
    /\ (e.pc # "idle" /\ e2 # e) => c2 = c
    /\ (e.pc = "try" /\ e2.pc = "push_body")
         => /\ e.i < nw
            /\ e2.cur = (e.index + e.i) % nw
            /\ ~bottleneck_[e2.cur] /\ bottleneck_'[e2.cur]
    /\ (e.pc = "try" /\ e2.pc \in {"try", "force"} /\ e2 # e)
         => /\ bottleneck_[(e.index + e.i) % nw]
            /\ e2.i = e.i + 1
            /\ e2.pc = "force" <=> e2.i = nw
    /\ (e.pc = "force" /\ e2 # e)
         => /\ e2.pc = "push_body" /\ e2.cur = e.index
            /\ ~bottleneck_[e2.cur] /\ bottleneck_'[e2.cur]
    /\ (e.pc = "push_body" /\ e2 # e)
         => /\ LinesOf(t) = {} /\ LinesOf(t)' = {e.cur}
            /\ Len(LineSeq(e.cur)') = Len(LineSeq(e.cur)) + 1
            /\ e2.pc = "n_inc" /\ e2.cur = e.cur
    /\ (e.pc = "n_inc" /\ e2 # e)
         => /\ num_tasks_' = num_tasks_ + 1
            /\ e2.pc = "n_try" => e2.cur = e.cur
    /\ (e.pc = "n_try" /\ e2.pc \in {"n_try", "n_token"}) => e2.cur = e.cur
    /\ (e.pc = "n_token" /\ e2 # e) => work_line_start_index_'[e.k] = e.cur
    /\ (e.pc # "n_inc" /\ e2 # e) => num_tasks_' = num_tasks_

\* C16: enqueue(t) takes one value of line_to_push_to_, which it advances by 1 modulo
\* 2^32, and starts at that value mod N; it locks the first line in cyclic order from
\* the start whose try-lock succeeds, or, after N failures, the start line with the
\* blocking lock; it links t into that one line and calls notify_one once, with the
\* index of that line.
C16_Enqueue == [](C16_Calls) /\ [][C16_Steps]_vars

\* After the counter has wrapped to 0, an enqueue whose N try-locks all failed holds
\* the lock of its start line and is about to link its task there.
C16_Witness ==
  /\ line_to_push_to_ = [hi |-> 0, lo |-> 0]
  /\ \E t \in Tasks : enq[t].pc = "push_body" /\ enq[t].i = nw /\ enq[t].cur = enq[t].index


\* No call is between its change of a work line and its update of num_tasks_.
CountSettled ==
  /\ \A t \in Tasks : enq[t].pc # "n_inc" /\ ext[t].pc # "dec"
  /\ \A w \in Threads : wk[w].pc # "dec"

C17_Counts ==
  /\ CountSettled => num_tasks_ = Cardinality({t \in Tasks : Linked(t)})
  /\ (/\ CountSettled
      /\ \A t \in Tasks : enq[t].pc \in {"n_try", "n_token", "done"}
                            => obs.popped[t] + obs.extracted[t] = 1)
       => num_tasks_ = 0

C17_Steps ==
  LET linked == Cardinality({t \in Tasks : Linked(t)})
      linked2 == Cardinality({t \in Tasks : Linked(t)'})
  IN
  /\ num_tasks_' = num_tasks_ + 1
       <=> \E t \in Tasks : enq[t].pc = "n_inc" /\ enq'[t].pc # "n_inc"
  /\ num_tasks_' = num_tasks_ - 1
       <=> \/ \E w \in Threads : wk[w].pc = "dec" /\ wk'[w].pc # "dec"
           \/ \E t \in Tasks : ext[t].pc = "dec" /\ ext'[t].pc # "dec"
  /\ num_tasks_' \in {num_tasks_ - 1, num_tasks_, num_tasks_ + 1}
  /\ \A w \in Threads :
       (wk[w].pc = "pop_body" /\ wk'[w].pc # "pop_body")
         => IF wk'[w].pc = "dec" THEN linked2 = linked - 1
            ELSE UNCHANGED <<listVars, num_tasks_>>
  /\ \A t \in Tasks :
       (ext[t].pc = "body" /\ ext'[t].pc # "body")
         => IF ext'[t].pc = "dec" THEN linked2 = linked - 1
            ELSE UNCHANGED <<listVars, num_tasks_>>

\* C17: num_tasks_ goes up by 1 once per enqueue and down by 1 once per successful
\* try_pop of a worker and per successful extract_task, and a failed try_pop or
\* extract_task changes neither a line nor the counter; so whenever no call is between
\* touching a line and updating the counter, num_tasks_ is the number of tasks linked
\* in the work lines, and it is 0 once every enqueued task has been popped or extracted.
C17_Accounting == [](C17_Counts) /\ [][C17_Steps]_vars

\* With every update of the counter made, one task has been extracted, another has
\* been popped, and num_tasks_ is back at 0.
C17_Witness ==
  /\ CountSettled /\ num_tasks_ = 0
  /\ \E t, u \in Tasks : /\ obs.extracted[t] = 1 /\ ext[t].pc = "idle"
                         /\ obs.popped[u] = 1 /\ enq[u].pc = "done"


\* join() has set stop_requested_ and has called try_notify(0) on every worker.
JoinNotifiedAll == ctl.pc = "j_join"

\* C18: once join() has set stop_requested_ and has called try_notify(0) on every
\* worker, every worker eventually leaves its loop and returns from thread_main,
\* whatever it was doing when stop was set.
C18_JoinTerminates ==
  JoinNotifiedAll ~> (\A w \in Threads : wk[w].pc = "exited")

\* join() has notified every worker, and its try_notify lost against an enqueue that
\* has won the wake-up of a parked worker and has not notified it yet; the task of
\* that enqueue is still in its line.
C18_Witness ==
  /\ JoinNotifiedAll
  /\ \E w \in Threads, t \in Tasks :
       /\ wk[w].pc = "parked" /\ wakeup_token_[w] = "armed"
       /\ enq[t].pc = "n_token" /\ enq[t].k = w /\ Linked(t)


\* The slot that points to the i-th node of line l: the head of the line for the
\* first node, the next_ field of the node before it otherwise.
SlotOf(l, i) == IF i = 1 THEN HeadSlot(l) ELSE NextSlot(LineSeq(l)[i - 1])

\* C19: whenever the lock of a work line is not held, every node reachable from its
\* head has a prev_link_ that points at the slot pointing to the node and a
\* worker_data_ equal to the line (check_list holds); every sequence of try_push,
\* push, try_pop and extract_task keeps it so.
C19_LineInvariant ==
  \A l \in Lines :
    ~bottleneck_[l] =>
      /\ check_list(l)
      /\ \A i \in 1 .. Len(LineSeq(l)) :
           /\ prev_link_[LineSeq(l)[i]] = SlotOf(l, i)
           /\ worker_data_[LineSeq(l)[i]] = l

\* No lock is held; the front task of a line has been extracted and the task that
\* was behind it is now the front of the line.
C19_Witness ==
  /\ \A l \in Lines : ~bottleneck_[l]
  /\ \E t, u \in Tasks :
       /\ obs.extracted[t] = 1 /\ next_[t] = u
       /\ prev_link_[u] = HeadSlot(worker_data_[u]) /\ Linked(u)


C20_Links ==
  /\ \A t \in Tasks :
       /\ worker_data_[t] = NoLine <=> ~Linked(t)
       /\ worker_data_[t] # NoLine => LinesOf(t) = {worker_data_[t]}
       /\ worker_data_[t] = NoLine => prev_link_[t] = NoLink
  /\ \A l \in Lines :
       \A i, j \in 1 .. Len(LineSeq(l)) : LineSeq(l)[i] = LineSeq(l)[j] => i = j

C20_Steps ==
  \A t \in Tasks :
    /\ (worker_data_[t] = NoLine /\ worker_data_'[t] # NoLine)
         => /\ enq[t].pc = "push_body" /\ enq'[t].pc = "n_inc"
            /\ worker_data_'[t] = enq[t].cur
            /\ LinesOf(t)' = {enq[t].cur}
    /\ (worker_data_[t] # NoLine /\ worker_data_'[t] = NoLine)
         => /\ \/ \E w \in Threads : wk[w].pc = "pop_body" /\ wk'[w].pc = "dec"
                                       /\ wk'[w].task = t
               \/ ext[t].pc = "body" /\ ext'[t].pc = "dec"
            /\ prev_link_'[t] = NoLink
            /\ LinesOf(t)' = {}
    /\ (worker_data_[t] # NoLine /\ worker_data_'[t] # NoLine)
         => worker_data_'[t] = worker_data_[t]

\* C20: task->worker_data_ is null exactly when the task is not linked in any work
\* line: it is set, to the line, by the push that links the task and is reset to null,
\* together with prev_link_, by the try_pop or extract_task that unlinks it; a task is
\* never in two lines at once and never twice in one line.
C20_WorkerData == [](C20_Links) /\ [][C20_Steps]_vars

\* One task has been popped and its worker_data_ is null again, while another one is
\* linked behind nothing in its line with worker_data_ naming that line.
C20_Witness ==
  \E t, u \in Tasks :
    /\ obs.popped[t] = 1 /\ worker_data_[t] = NoLine /\ prev_link_[t] = NoLink
    /\ worker_data_[u] \in Lines /\ InLine(u, worker_data_[u])


\* The lines other than l are as they were.
OtherLinesKept(l) == \A m \in Lines \ {l} : LineSeq(m)' = LineSeq(m)

C21_Steps ==
  /\ \A t \in Tasks :
       (enq[t].pc = "push_body" /\ enq'[t] # enq[t])
         => /\ LineSeq(enq[t].cur)' = <<t>> \o LineSeq(enq[t].cur)
            /\ OtherLinesKept(enq[t].cur)
  /\ \A w \in Threads :
       /\ (wk[w].pc = "pop_body" /\ wk'[w] # wk[w])
            => LET l == wk[w].line
                   before == LineSeq(l)
               IN IF before # <<>>
                  THEN /\ wk'[w].pc = "dec" /\ wk'[w].task = Head(before)
                       /\ LineSeq(l)' = Tail(before)
                       /\ OtherLinesKept(l)
                  ELSE /\ wk'[w].pc = "sweep" /\ wk'[w].task = wk[w].task
                       /\ UNCHANGED listVars
       /\ (wk[w].pc = "sweep" /\ wk'[w] # wk[w])
            => /\ UNCHANGED listVars
               /\ wk'[w].task = wk[w].task
               /\ wk'[w].pc = "pop_body"
                    <=> (wk[w].i < 2 * nw /\ ~bottleneck_[SweepLine(w)])

RECURSIVE Without(_, _)
Without(seq, t) ==
  IF seq = <<>> THEN <<>>
  ELSE IF Head(seq) = t THEN Without(Tail(seq), t)
  ELSE <<Head(seq)>> \o Without(Tail(seq), t)

C22_Steps ==
  \A t \in Tasks :
    (ext[t].pc = "body" /\ ext'[t] # ext[t])
      => LET d == ext[t].d IN
         IF worker_data_[t] = d
         THEN /\ ext'[t].pc = "dec"
              /\ LineSeq(d)' = Without(LineSeq(d), t)
              /\ Len(LineSeq(d)') = Len(LineSeq(d)) - 1
              /\ OtherLinesKept(d)
         ELSE /\ ext'[t].pc = "idle" /\ ~ext'[t].res
              /\ UNCHANGED listVars

\* C22: work_line::extract_task, holding the lock of its line, removes t only when
\* t->worker_data_ is that line: it then unlinks exactly t and leaves the other tasks
\* of the line, their order and every other line as they were; when t->worker_data_
\* is not that line (null, or another line after a pop and a new enqueue), it returns
\* false and changes no line.
C22_ExtractOnOwnLine == [][C22_Steps]_vars


\* C23: every stack made by callcc is destroyed once at most, and only after its main
\* function has returned a continuation: destroy(control) and the deallocation run in
\* the exit function on the stack of the continuation that is resumed, never on the
\* stack that is freed, and after that no code runs on the freed stack and no
\* continuation in anybody's hand would resume into it.
C23_StackDestroyedOnce ==
  /\ contexts.cur \in Stacks => contexts.stack_[contexts.cur] = "live"
  /\ contexts.data # NoStack =>
       /\ contexts.cur # contexts.data
       /\ contexts.cur = contexts.fctx[contexts.data]
       /\ contexts.pc[contexts.cur] = "exit"
  /\ \A s \in Stacks :
       /\ contexts.destroys[s] <= 1
       /\ contexts.stack_[s] = "freed" <=> contexts.destroys[s] = 1
       /\ contexts.control[s] = "destructed" => contexts.fctx[s] # NoStack
       /\ contexts.stack_[s] = "freed" =>
            /\ contexts.control[s] = "destructed"
            /\ contexts.freedOn[s] = contexts.fctx[s] /\ contexts.freedOn[s] # s
            /\ contexts.cur # s /\ contexts.callee # s
            /\ contexts.pc[s] = "dead"
            /\ \A x \in AllStacks : s \notin contexts.held[x]
            /\ \A u \in Stacks : contexts.pc[u] = "returned" => contexts.fctx[u] # s
       /\ (contexts.pc[s] = "dead" /\ contexts.data # s) => contexts.stack_[s] = "freed"
  /\ \A x \in AllStacks : \A k \in contexts.held[x] :
       /\ contexts.pc[k] = "suspended"
       /\ k \in Stacks => contexts.stack_[k] = "live"


\* Two stacks have been destroyed, one from the thread's own stack and one from
\* another callcc stack, on which user code is running again.
C23_Witness ==
  \E s, u \in Stacks :
    /\ contexts.stack_[s] = "freed" /\ contexts.freedOn[s] = RootStack
    /\ contexts.stack_[u] = "freed" /\ contexts.freedOn[u] \in Stacks
    /\ contexts.cur = contexts.freedOn[u] /\ contexts.pc[contexts.cur] = "user"

====
